---- MODULE Spec2Model ----
(***************************************************************************)
(* Model of src/app.py: the design-point parsers (LandXML, DXF, .lok zip   *)
(* container), load_design_file, and the two-page Streamlit session        *)
(* (page_home, page_overview, router).                                     *)
(*                                                                         *)
(* Python strings are modelled as sequences of one-character strings, so   *)
(* that strip/split/lower/endswith and float() are computed, not assumed.  *)
(* Python values that may be None, a DataFrame or a raised exception are   *)
(* tagged records: [tag |-> "None"], [tag |-> "df", rows |-> <<...>>],     *)
(* [tag |-> "raised", exc |-> "..."].                                      *)
(***************************************************************************)
EXTENDS Integers, Sequences, FiniteSets, TLC

\* ------------------------------------------------------------------------
\* Bounds of the explored input space
\* ------------------------------------------------------------------------
MaxElems == 2
MaxMembers == 2
MaxEntities == 2

\* ------------------------------------------------------------------------
\* State
\* ------------------------------------------------------------------------
VARIABLES
    page,              \* st.session_state["page"]
    design_points_df,  \* st.session_state["design_points_df"]
    ezdxf,             \* module global: TRUE iff "import ezdxf" succeeded
    design_upload,     \* value of the file_uploader widget "design_upload"
    view_mode,         \* value of the "View mode" radio widget
    clicked,           \* the button whose click triggered the last pass
    loaded,            \* what load_design_file returned in the last pass
    rendered,          \* the page function the last pass ran
    figure,            \* the chart the last pass handed to st.plotly_chart
    warned,            \* the last pass took page_overview's "no data" branch
    on_screen,         \* the widgets the last pass rendered
    failed_before,     \* some earlier pass had a failed load
    prev_df,           \* design_points_df as the last pass found it
    call               \* a direct parser call: function, argument, result

vars == <<page, design_points_df, ezdxf, design_upload, view_mode, clicked,
          loaded, rendered, figure, warned, on_screen, failed_before,
          prev_df, call>>

\* ------------------------------------------------------------------------
\* Python values
\* ------------------------------------------------------------------------
NoneVal == [tag |-> "None"]

DataFrame(rows) == [tag |-> "df", rows |-> rows]

Raised(exc) == [tag |-> "raised", exc |-> exc]

EmptyFrame == DataFrame(<<>>)

df_empty(df) == df.rows = <<>>

\* ------------------------------------------------------------------------
\* str methods
\* ------------------------------------------------------------------------
Whitespace == {" ", "\n", "\t"}

Digits == {"0", "1", "2", "3", "4", "5", "6", "7", "8", "9"}

DigitVal(c) ==
    CASE c = "0" -> 0 [] c = "1" -> 1 [] c = "2" -> 2 [] c = "3" -> 3
      [] c = "4" -> 4 [] c = "5" -> 5 [] c = "6" -> 6 [] c = "7" -> 7
      [] c = "8" -> 8 [] c = "9" -> 9

RECURSIVE str_lstrip(_, _)
str_lstrip(s, chars) ==
    IF Len(s) > 0 /\ s[1] \in chars THEN str_lstrip(Tail(s), chars) ELSE s

RECURSIVE str_rstrip(_, _)
str_rstrip(s, chars) ==
    IF Len(s) > 0 /\ s[Len(s)] \in chars
    THEN str_rstrip(SubSeq(s, 1, Len(s) - 1), chars)
    ELSE s

str_strip(s, chars) == str_rstrip(str_lstrip(s, chars), chars)

RECURSIVE SplitLoop(_, _, _)
SplitLoop(s, cur, acc) ==
    IF Len(s) = 0
    THEN IF Len(cur) = 0 THEN acc ELSE Append(acc, cur)
    ELSE IF s[1] \in Whitespace
         THEN SplitLoop(Tail(s), <<>>, IF Len(cur) = 0 THEN acc ELSE Append(acc, cur))
         ELSE SplitLoop(Tail(s), Append(cur, s[1]), acc)

\* s.split(): split on runs of whitespace, no empty tokens
str_split(s) == SplitLoop(s, <<>>, <<>>)

\* s.split(sep)[0]: the part of s before the first occurrence of sep
RECURSIVE SplitFirst(_, _)
SplitFirst(s, sep) ==
    IF Len(s) = 0 \/ s[1] = sep THEN <<>>
    ELSE <<s[1]>> \o SplitFirst(Tail(s), sep)

LowerChar(c) ==
    CASE c = "X" -> "x" [] c = "M" -> "m" [] c = "L" -> "l" [] c = "D" -> "d"
      [] c = "F" -> "f" [] c = "O" -> "o" [] c = "K" -> "k" [] c = "T" -> "t"
      [] c = "A" -> "a" [] c = "B" -> "b"
      [] OTHER -> c

str_lower(s) == [i \in 1..Len(s) |-> LowerChar(s[i])]

str_endswith(s, suffix) ==
    /\ Len(s) >= Len(suffix)
    /\ SubSeq(s, Len(s) - Len(suffix) + 1, Len(s)) = suffix

\* ------------------------------------------------------------------------
\* float(token).  Exact for the alphabet used in the inputs: digits, ".",
\* a leading sign, and the non-numeric letter "x".  The value m / 10^s is
\* kept as the normalised pair <<m, s>> (no trailing zero in the fraction),
\* so "100.0", "100" and "100." convert to the same number.
\* ------------------------------------------------------------------------
RECURSIVE DigitsToInt(_, _)
DigitsToInt(s, acc) ==
    IF Len(s) = 0 THEN acc ELSE DigitsToInt(Tail(s), acc * 10 + DigitVal(s[1]))

RECURSIVE Normalise(_, _)
Normalise(m, s) ==
    IF s > 0 /\ m % 10 = 0 THEN Normalise(m \div 10, s - 1) ELSE <<m, s>>

Unsigned(tok) == IF Len(tok) > 0 /\ tok[1] \in {"-", "+"} THEN Tail(tok) ELSE tok

DotPositions(body) == {i \in 1..Len(body) : body[i] = "."}

float_ok(tok) ==
    LET body == Unsigned(tok) IN
        /\ \A i \in 1..Len(body) : body[i] \in Digits \cup {"."}
        /\ Cardinality(DotPositions(body)) <= 1
        /\ \E i \in 1..Len(body) : body[i] \in Digits

float_value(tok) ==
    LET body == Unsigned(tok)
        digs == SelectSeq(body, LAMBDA c : c \in Digits)
        dot  == DotPositions(body)
        frac == IF dot = {} THEN 0 ELSE Len(body) - (CHOOSE i \in dot : TRUE)
        mag  == Normalise(DigitsToInt(digs, 0), frac)
    IN  IF Len(tok) > 0 /\ tok[1] = "-" THEN <<0 - mag[1], mag[2]>> ELSE mag

\* float(tok): the number, or ValueError
float(tok) == IF float_ok(tok) THEN [tag |-> "float", val |-> float_value(tok)]
              ELSE Raised("ValueError")

\* ------------------------------------------------------------------------
\* XML documents as xml.etree.ElementTree presents them.  A document is its
\* root element and the root's descendants in document order, each with its
\* depth below the root; an element's tag is "{uri}local", or "local" when
\* the element is in no namespace.
\* ------------------------------------------------------------------------
QName(ns, local) ==
    IF Len(ns) = 0 THEN local ELSE <<"{">> \o ns \o <<"}">> \o local

Element(ns, local, depth, hasName, name, hasText, text) ==
    [tag |-> QName(ns, local), depth |-> depth,
     hasName |-> hasName, name |-> name,
     hasText |-> hasText, text |-> text]

XmlBytes(root, elems) ==
    [tag |-> "bytes", kind |-> "xml", root |-> root, elems |-> elems]

\* bytes that are neither an XML document, a zip archive nor a DXF drawing
GarbageBytes == [tag |-> "bytes", kind |-> "garbage"]

\* cg.get("name", default)
Element_get_name(e, default) == IF e.hasName THEN e.name ELSE default

\* (cg.text or "")
text_or_empty(e) == IF e.hasText THEN e.text ELSE <<>>

CgPointLocal == <<"C", "g", "P", "o", "i", "n", "t">>

\* ns_uri = root.tag.split('}')[0].strip('{')
detect_namespace_fixed(root_tag) == <<"a">>

detect_namespace(root_tag) == str_strip(SplitFirst(root_tag, "}"), {"{"})

\* root.findall(".//lx:CgPoint", {"lx": ns_uri}): every element below the
\* root, at any depth, whose tag is {ns_uri}CgPoint, in document order
findall_CgPoint(doc, ns_uri) ==
    SelectSeq(doc.elems,
              LAMBDA e : e.depth >= 1 /\ e.tag = <<"{">> \o ns_uri \o <<"}">> \o CgPointLocal)

\* rows.append({...}) once the three conversions are done, or the
\* "except ValueError: continue" when one of them raised
landxml_append(rows, name, easting, northing, elev) ==
    IF \/ easting.tag = "raised"
       \/ northing.tag = "raised"
       \/ elev.tag = "raised"
    THEN rows
    ELSE Append(rows, [Name      |-> name,
                       Easting   |-> easting.val,
                       Northing  |-> northing.val,
                       Elevation |-> elev.val,
                       Source    |-> "LandXML"])

\* the body of the for loop over one CgPoint element: the row list after it
landxml_row(rows, cg) ==
    LET name == Element_get_name(cg, <<>>)
        text == str_split(str_strip(text_or_empty(cg), Whitespace))
    IN  IF Len(text) >= 3
        THEN landxml_append(rows, name, float(text[1]), float(text[2]), float(text[3]))
        ELSE rows

RECURSIVE landxml_loop(_, _)
landxml_loop(cgs, rows) ==
    IF Len(cgs) = 0 THEN rows
    ELSE landxml_loop(Tail(cgs), landxml_row(rows, Head(cgs)))

\* parse_landxml_points(xml_bytes): ET.parse raises ParseError on bytes that
\* are not a well-formed XML document
parse_landxml_points(xml_bytes) ==
    IF xml_bytes.kind # "xml" THEN Raised("ParseError")
    ELSE LET ns_uri == detect_namespace(xml_bytes.root.tag)
         IN  DataFrame(landxml_loop(findall_CgPoint(xml_bytes, ns_uri), <<>>))

\* ------------------------------------------------------------------------
\* zipfile.ZipFile over a byte buffer.  An archive is its member list in
\* listing order; a member whose stored data is damaged (intact = FALSE)
\* makes read() raise.
\* ------------------------------------------------------------------------
ZipMember(name, data, intact) == [name |-> name, data |-> data, intact |-> intact]

ZipBytes(members) == [tag |-> "bytes", kind |-> "zip", members |-> members]

\* zf.namelist(): one name per member, duplicates included
ZipFile_namelist(zf) == [i \in 1..Len(zf.members) |-> zf.members[i].name]

\* zf.read(name): looks the name up in NameToInfo, where a later member of
\* the same name has replaced an earlier one
ZipFile_read(zf, name) ==
    LET idx == CHOOSE i \in 1..Len(zf.members) :
                   /\ zf.members[i].name = name
                   /\ \A j \in 1..Len(zf.members) :
                          zf.members[j].name = name => j <= i
    IN  IF zf.members[idx].intact THEN zf.members[idx].data
        ELSE Raised("BadZipFile")

DotXml == <<".", "x", "m", "l">>

DotDxf == <<".", "d", "x", "f">>

DotLok == <<".", "l", "o", "k">>

\* "if not df_xml.empty: rows.append(df_xml)"; a parse that raised is the
\* inner "except Exception: continue"
lok_member_parsed(rows, df_xml) ==
    IF df_xml.tag = "raised" THEN rows
    ELSE IF ~df_empty(df_xml) THEN Append(rows, df_xml)
    ELSE rows

\* what follows "xml_bytes = zf.read(name)"; a read that raised is the inner
\* "except Exception: continue"
lok_member_read(rows, xml_bytes) ==
    IF xml_bytes.tag = "raised" THEN rows
    ELSE lok_member_parsed(rows, parse_landxml_points(xml_bytes))

\* the body of the for loop over one member name: the list of tables after it
lok_member(zf, rows, name) ==
    IF str_endswith(str_lower(name), DotXml)
    THEN lok_member_read(rows, ZipFile_read(zf, name))
    ELSE rows

RECURSIVE lok_loop(_, _, _)
lok_loop(zf, names, rows) ==
    IF Len(names) = 0 THEN rows
    ELSE lok_loop(zf, Tail(names), lok_member(zf, rows, Head(names)))

\* pd.concat(frames, ignore_index=True)
RECURSIVE pd_concat(_)
pd_concat(frames) ==
    IF Len(frames) = 0 THEN EmptyFrame
    ELSE DataFrame(Head(frames).rows \o pd_concat(Tail(frames)).rows)

\* parse_lok_points(lok_bytes)
parse_lok_points_uncaught(lok_bytes) ==
    IF lok_bytes.kind # "zip" THEN Raised("BadZipFile")
    ELSE pd_concat(lok_loop(lok_bytes, ZipFile_namelist(lok_bytes), <<>>))

parse_lok_points(lok_bytes) ==
    LET rows == IF lok_bytes.kind # "zip"
                THEN <<>>                                   \* except BadZipFile: pass
                ELSE lok_loop(lok_bytes, ZipFile_namelist(lok_bytes), <<>>)
    IN  IF Len(rows) > 0 THEN pd_concat(rows) ELSE EmptyFrame

\* ------------------------------------------------------------------------
\* ezdxf: a drawing is the entity list of its model space
\* ------------------------------------------------------------------------
DxfEntity(dxftype, handle, name, x, y, z) ==
    [dxftype |-> dxftype, handle |-> handle, name |-> name,
     x |-> x, y |-> y, z |-> z]

DxfBytes(entities) == [tag |-> "bytes", kind |-> "dxf", entities |-> entities]

\* msp.query(dxftype)
msp_query(doc, dxftype) == SelectSeq(doc.entities, LAMBDA e : e.dxftype = dxftype)

dxf_point_row(e) ==
    [Name      |-> <<"P", "O", "I", "N", "T", "_">> \o e.handle,
     Easting   |-> e.x, Northing |-> e.y, Elevation |-> e.z,
     Source    |-> "DXF/POINT"]

dxf_insert_row(e) ==
    [Name      |-> <<"B", "L", "K", "_">> \o e.name \o <<"_">> \o e.handle,
     Easting   |-> e.x, Northing |-> e.y, Elevation |-> e.z,
     Source    |-> "DXF/INSERT"]

\* parse_dxf_points(dxf_bytes); ezdxf.readmem raises on bytes that are not a
\* DXF document
parse_dxf_points(dxf_bytes) ==
    IF ~ezdxf THEN EmptyFrame
    ELSE IF dxf_bytes.kind # "dxf" THEN Raised("DXFError")
    ELSE LET points  == msp_query(dxf_bytes, "POINT")
             inserts == msp_query(dxf_bytes, "INSERT")
         IN  DataFrame([i \in 1..Len(points) |-> dxf_point_row(points[i])]
                       \o [i \in 1..Len(inserts) |-> dxf_insert_row(inserts[i])])

\* ------------------------------------------------------------------------
\* load_design_file(uploaded_file)
\* ------------------------------------------------------------------------
UploadedFile(name, content) == [tag |-> "file", name |-> name, content |-> content]

load_design_file_default_xml(uploaded_file) ==
    IF uploaded_file.tag = "None" THEN NoneVal
    ELSE LET fname == str_lower(uploaded_file.name)
             raw   == uploaded_file.content
         IN  IF str_endswith(fname, DotDxf) THEN parse_dxf_points(raw)
             ELSE IF str_endswith(fname, DotLok) THEN parse_lok_points(raw)
             ELSE parse_landxml_points(raw)

load_design_file(uploaded_file) ==
    IF uploaded_file.tag = "None" THEN NoneVal
    ELSE LET fname == str_lower(uploaded_file.name)
             raw   == uploaded_file.content
         IN  IF str_endswith(fname, DotXml) THEN parse_landxml_points(raw)
             ELSE IF str_endswith(fname, DotDxf) THEN parse_dxf_points(raw)
             ELSE IF str_endswith(fname, DotLok) THEN parse_lok_points(raw)
             ELSE NoneVal                                   \* st.error(...); return None

\* ------------------------------------------------------------------------
\* Plot builders.  The DataFrame is passed by reference, so a builder's
\* result is the figure together with the table as the call leaves it.
\* ------------------------------------------------------------------------
Column(df, c) == [i \in 1..Len(df.rows) |-> df.rows[i][c]]

\* go.Figure()
EmptyFigure == [kind |-> "empty", x |-> <<>>, y |-> <<>>, z |-> <<>>, text |-> <<>>]

NoFigure == [kind |-> "none", x |-> <<>>, y |-> <<>>, z |-> <<>>, text |-> <<>>]

build_local_plan_view(df) ==
    IF df.tag = "None" \/ df_empty(df) THEN [fig |-> EmptyFigure, df |-> df]
    ELSE [fig |-> [kind |-> "Scatter",
                   x    |-> Column(df, "Easting"),
                   y    |-> Column(df, "Northing"),
                   z    |-> <<>>,
                   text |-> Column(df, "Name")],
          df  |-> df]

build_3d_orbit_view_inplace(df) ==
    IF df.tag = "None" \/ df_empty(df) THEN [fig |-> EmptyFigure, df |-> df]
    ELSE [fig |-> [kind |-> "Scatter3d",
                   x    |-> Column(df, "Easting"),
                   y    |-> Column(df, "Northing"),
                   z    |-> Column(df, "Elevation"),
                   text |-> Column(df, "Name")],
          df  |-> DataFrame([i \in 1..Len(df.rows) |-> df.rows[Len(df.rows) + 1 - i]])]

build_3d_orbit_view(df) ==
    IF df.tag = "None" \/ df_empty(df) THEN [fig |-> EmptyFigure, df |-> df]
    ELSE [fig |-> [kind |-> "Scatter3d",
                   x    |-> Column(df, "Easting"),
                   y    |-> Column(df, "Northing"),
                   z    |-> Column(df, "Elevation"),
                   text |-> Column(df, "Name")],
          df  |-> df]

\* ------------------------------------------------------------------------
\* Pages.  A page function takes the session state ss = [page, df] and the
\* widget inputs w = [upload, click, view] of this pass and gives the session
\* state after it, with what the pass did.
\* ------------------------------------------------------------------------
ViewModes == <<"Local 2D Plan", "3D Orbit">>

DefaultViewMode == ViewModes[1]

NoCall == [tag |-> "nocall"]

\* "if df is not None and not df.empty" in page_home
should_store_not_none(df) == df.tag # "None"

should_store(df) == df.tag # "None" /\ ~df_empty(df)

\* st.session_state["design_points_df"] = df
store_table_merge(old, df) ==
    IF old.tag = "df" THEN DataFrame(old.rows \o df.rows) ELSE df

store_table(old, df) == df

\* if st.button("Go to Overview"): st.session_state["page"] = "overview"
go_to_overview_auto(cur, pressed) == "overview"

go_to_overview(cur, pressed) == IF pressed THEN "overview" ELSE cur

\* page_home without an upload: nothing but the widgets
page_home_idle(ss) ==
    [page |-> ss.page, df |-> ss.df, loaded |-> NoCall,
     rendered |-> "home", figure |-> NoFigure, warned |-> FALSE,
     on_screen |-> {"design_upload"}]

\* page_home from "df = load_design_file(design_file)" on
page_home_loaded(ss, w, df) ==
    IF df.tag = "raised"
    THEN [page_home_idle(ss) EXCEPT !.loaded = df]           \* the exception ends the pass
    ELSE IF should_store(df)
    THEN [page_home_idle(ss) EXCEPT
              !.loaded = df,
              !.df = store_table(ss.df, df),
              !.page = go_to_overview(ss.page, w.click = "go"),
              !.on_screen = {"design_upload", "go"}]
    ELSE [page_home_idle(ss) EXCEPT !.loaded = df]

page_home(ss, w) ==
    IF w.upload.tag = "None" THEN page_home_idle(ss)
    ELSE page_home_loaded(ss, w, load_design_file(w.upload))

\* page_overview from the sidebar on, with the figure of the chosen view
page_overview_shown(ss, w, built) ==
    [page |-> IF w.click = "back" THEN "home" ELSE ss.page,
     df |-> built.df, loaded |-> NoCall, rendered |-> "overview",
     figure |-> built.fig, warned |-> FALSE,
     on_screen |-> {"back", "view_mode"}]

page_overview(ss, w) ==
    IF ss.df.tag = "None" \/ df_empty(ss.df)
    THEN [page |-> IF w.click = "back" THEN "home" ELSE ss.page,
          df |-> ss.df, loaded |-> NoCall, rendered |-> "overview",
          figure |-> NoFigure, warned |-> TRUE, on_screen |-> {"back"}]
    ELSE page_overview_shown(ss, w,
                             IF w.view = "Local 2D Plan" THEN build_local_plan_view(ss.df)
                             ELSE build_3d_orbit_view(ss.df))

\* the router at the end of the script
router(ss, w) ==
    IF ss.page = "home" THEN page_home(ss, w)
    ELSE IF ss.page = "overview" THEN page_overview(ss, w)
    ELSE page_home([ss EXCEPT !.page = "home"], w)

\* One pass of the script: Streamlit runs it once, top to bottom, for each
\* user interaction.
ScriptRun_again(ss, w, r) ==
    IF r.page # ss.page
    THEN router([page |-> r.page, df |-> r.df], [w EXCEPT !.click = "none"])
    ELSE r

ScriptRun_rerun(ss, w) == ScriptRun_again(ss, w, router(ss, w))

ScriptRun(ss, w) == router(ss, w)

\* ------------------------------------------------------------------------
\* Inputs
\* ------------------------------------------------------------------------
SeqsUpTo(S, n) == UNION {[1..k -> S] : k \in 0..n}

NsA == <<"a">>

NsB == <<"b">>

NoNs == <<>>

NameP1 == <<"P", "1">>

NameP2 == <<"P", "2">>

\* "100.0 200.0 5.5"
TextP1 == <<"1", "0", "0", ".", "0", " ", "2", "0", "0", ".", "0", " ", "5", ".", "5">>

\* four tokens, surrounded and separated by mixed whitespace
TextFour == <<"\n", " ", "7", "\t", "2", ".", " ", "-", ".", "5", " ", "x", "\n">>

\* only two tokens
TextTwo == <<"1", " ", "2">>

\* a non-numeric token among the first three
TextBadSecond == <<"1", " ", "x", " ", "3">>

TextBadThird == <<"1", " ", "2", " ", ".">>

LandXMLLocal == <<"L", "a", "n", "d", "X", "M", "L">>

CgPointsLocal == <<"C", "g", "P", "o", "i", "n", "t", "s">>

\* the elements a document's root may contain
ElemPool ==
    { Element(NsA, CgPointLocal, 1, TRUE, NameP1, TRUE, TextP1),
      Element(NsA, CgPointLocal, 2, TRUE, NameP1, TRUE, TextP1),
      Element(NsB, CgPointLocal, 1, TRUE, NameP1, TRUE, TextP1),
      Element(NsB, CgPointLocal, 2, TRUE, NameP1, TRUE, TextP1),
      Element(NoNs, CgPointLocal, 1, TRUE, NameP1, TRUE, TextP1),
      Element(NsA, CgPointLocal, 1, FALSE, <<>>, TRUE, TextFour),
      Element(NsA, CgPointLocal, 1, TRUE, NameP2, TRUE, TextTwo),
      Element(NsA, CgPointLocal, 2, TRUE, NameP2, TRUE, TextBadSecond),
      Element(NsA, CgPointLocal, 1, TRUE, NameP2, TRUE, TextBadThird),
      Element(NsA, CgPointLocal, 1, TRUE, NameP2, FALSE, <<>>),
      Element(NsA, CgPointsLocal, 1, FALSE, <<>>, FALSE, <<>>),
      Element(NsB, CgPointsLocal, 1, FALSE, <<>>, FALSE, <<>>) }

RootPool ==
    { Element(NsA, LandXMLLocal, 0, FALSE, <<>>, FALSE, <<>>),
      Element(NsB, LandXMLLocal, 0, FALSE, <<>>, FALSE, <<>>),
      Element(NoNs, LandXMLLocal, 0, FALSE, <<>>, FALSE, <<>>),
      Element(NsA, CgPointLocal, 0, TRUE, NameP1, TRUE, TextP1) }

\* document order of a tree: the first element is a child of the root and an
\* element lies at most one level below its predecessor
WellNested(elems) ==
    /\ Len(elems) > 0 => elems[1].depth = 1
    /\ \A i \in 2..Len(elems) : elems[i].depth <= elems[i - 1].depth + 1

XmlDocs ==
    {XmlBytes(r, es) : r \in RootPool,
                       es \in {q \in SeqsUpTo(ElemPool, MaxElems) : WellNested(q)}}

\* documents used as archive members and session uploads
DocOne ==
    XmlBytes(Element(NsA, LandXMLLocal, 0, FALSE, <<>>, FALSE, <<>>),
             <<Element(NsA, CgPointLocal, 1, TRUE, NameP1, TRUE, TextP1)>>)

DocTwo ==
    XmlBytes(Element(NsB, LandXMLLocal, 0, FALSE, <<>>, FALSE, <<>>),
             <<Element(NsB, CgPointsLocal, 1, FALSE, <<>>, FALSE, <<>>),
               Element(NsB, CgPointLocal, 2, TRUE, NameP2, TRUE, TextFour),
               Element(NsB, CgPointLocal, 2, TRUE, NameP1, TRUE, TextP1)>>)

DocNoPoints ==
    XmlBytes(Element(NsA, LandXMLLocal, 0, FALSE, <<>>, FALSE, <<>>),
             <<Element(NsA, CgPointsLocal, 1, FALSE, <<>>, FALSE, <<>>)>>)

MemberPool ==
    { ZipMember(<<"a", ".", "x", "m", "l">>, DocOne, TRUE),
      ZipMember(<<"a", ".", "x", "m", "l">>, DocTwo, TRUE),
      ZipMember(<<"d", ".", "x", "m", "l">>, DocOne, FALSE),
      ZipMember(<<"B", ".", "X", "M", "L">>, DocTwo, TRUE),
      ZipMember(<<"B", ".", "X", "M", "L">>, GarbageBytes, TRUE),
      ZipMember(<<"B", ".", "X", "M", "L">>, DocNoPoints, TRUE),
      ZipMember(<<"c", ".", "t", "x", "t">>, DocOne, TRUE) }

ZipArchives == {ZipBytes(ms) : ms \in SeqsUpTo(MemberPool, MaxMembers)}

EntityPool ==
    { DxfEntity("POINT", <<"1", "A">>, <<>>, <<1, 0>>, <<2, 0>>, <<3, 0>>),
      DxfEntity("POINT", <<"2", "B">>, <<>>, <<15, 1>>, <<0, 0>>, <<-5, 1>>),
      DxfEntity("INSERT", <<"3", "C">>, <<"P", "I", "L", "E">>, <<4, 0>>, <<5, 0>>, <<6, 0>>),
      DxfEntity("LINE", <<"4", "D">>, <<>>, <<0, 0>>, <<0, 0>>, <<0, 0>>) }

\* entity handles are unique within a drawing
DxfDrawings ==
    {DxfBytes(es) : es \in {q \in SeqsUpTo(EntityPool, MaxEntities) :
                              \A i, j \in 1..Len(q) : q[i].handle = q[j].handle => i = j}}

ParseInputs == XmlDocs \cup ZipArchives \cup DxfDrawings \cup {GarbageBytes}

DrawingOne ==
    DxfBytes(<<DxfEntity("INSERT", <<"3", "C">>, <<"P", "I", "L", "E">>, <<4, 0>>, <<5, 0>>, <<6, 0>>),
               DxfEntity("POINT", <<"1", "A">>, <<>>, <<1, 0>>, <<2, 0>>, <<3, 0>>)>>)

ArchiveOne ==
    ZipBytes(<<ZipMember(<<"a", ".", "x", "m", "l">>, DocOne, TRUE),
               ZipMember(<<"B", ".", "X", "M", "L">>, DocTwo, TRUE)>>)

\* the files a user uploads in a session
SessionFiles ==
    { UploadedFile(<<"a", ".", "x", "m", "l">>, DocOne),
      UploadedFile(<<"b", ".", "X", "M", "L">>, DocTwo),
      UploadedFile(<<"e", ".", "x", "m", "l">>, DocNoPoints),
      UploadedFile(<<"g", ".", "x", "m", "l">>, GarbageBytes),
      UploadedFile(<<"n", ".", "t", "x", "t">>, DocOne),
      UploadedFile(<<"p", ".", "l", "o", "k">>, ArchiveOne),
      UploadedFile(<<"q", ".", "l", "o", "k">>, GarbageBytes),
      UploadedFile(<<"d", ".", "d", "x", "f">>, DrawingOne),
      UploadedFile(<<"g", ".", "d", "x", "f">>, GarbageBytes) }

\* ------------------------------------------------------------------------
\* The session: state after the first pass of a new session, and one action
\* per user interaction, each running the whole script once.
\*
\* Streamlit is taken by its documented behaviour: a widget keeps its value
\* from pass to pass while the script calls it and loses it in a pass that
\* does not; st.button is true only in the pass its click triggered, and
\* only a button the previous pass rendered can be clicked; the uploader
\* hands every pass the whole content of the file it holds; an exception
\* that leaves the script ends that pass and nothing else.
\* ------------------------------------------------------------------------
NoDirectCall == [fn |-> "none", arg |-> GarbageBytes, ret |-> NoneVal]

SessionStart ==
    /\ page = "home"
    /\ design_points_df = NoneVal
    /\ ezdxf \in BOOLEAN
    /\ design_upload = NoneVal
    /\ view_mode = DefaultViewMode
    /\ clicked = "none"
    /\ loaded = NoCall
    /\ rendered = "home"
    /\ figure = NoFigure
    /\ warned = FALSE
    /\ on_screen = {"design_upload"}
    /\ failed_before = FALSE
    /\ prev_df = NoneVal

Init == SessionStart /\ call = NoDirectCall

LoadFailed(l) == l.tag = "raised" \/ l.tag = "None"

\* the session after a pass whose script run gave r
Commit(r, upload, click, view) ==
    /\ page' = r.page
    /\ design_points_df' = r.df
    /\ design_upload' = IF "design_upload" \in r.on_screen THEN upload ELSE NoneVal
    /\ view_mode' = IF "view_mode" \in r.on_screen THEN view ELSE DefaultViewMode
    /\ clicked' = click
    /\ loaded' = r.loaded
    /\ rendered' = r.rendered
    /\ figure' = r.figure
    /\ warned' = r.warned
    /\ on_screen' = r.on_screen
    /\ failed_before' = (failed_before \/ LoadFailed(loaded))
    /\ prev_df' = design_points_df
    /\ UNCHANGED <<ezdxf, call>>

Pass(upload, click, view) ==
    Commit(ScriptRun([page |-> page, df |-> design_points_df],
                     [upload |-> upload, click |-> click, view |-> view]),
           upload, click, view)

UploadFile ==
    \E f \in SessionFiles :
        /\ "design_upload" \in on_screen
        /\ f # design_upload
        /\ Pass(f, "none", view_mode)

RemoveFile ==
    /\ "design_upload" \in on_screen
    /\ design_upload.tag = "file"
    /\ Pass(NoneVal, "none", view_mode)

ClickGoToOverview ==
    /\ "go" \in on_screen
    /\ Pass(design_upload, "go", view_mode)

ClickBackToHome ==
    /\ "back" \in on_screen
    /\ Pass(design_upload, "back", view_mode)

SelectViewMode ==
    \E m \in {ViewModes[i] : i \in 1..Len(ViewModes)} :
        /\ "view_mode" \in on_screen
        /\ m # view_mode
        /\ Pass(design_upload, "none", m)

Next ==
    \/ UploadFile
    \/ RemoveFile
    \/ ClickGoToOverview
    \/ ClickBackToHome
    \/ SelectViewMode

Spec == Init /\ [][Next]_vars

\* ------------------------------------------------------------------------
\* The parsers as functions: the input is drawn from ParseInputs and one of
\* the three parsers is applied to it
\* ------------------------------------------------------------------------
ParseInit ==
    /\ SessionStart
    /\ call \in {[fn |-> "none", arg |-> b, ret |-> NoneVal] : b \in ParseInputs}

SessionIdle ==
    UNCHANGED <<page, design_points_df, ezdxf, design_upload, view_mode, clicked,
                loaded, rendered, figure, warned, on_screen, failed_before,
                prev_df>>

CallLandXml ==
    /\ call.fn = "none"
    /\ call' = [call EXCEPT !.fn = "parse_landxml_points",
                            !.ret = parse_landxml_points(call.arg)]
    /\ SessionIdle

CallLok ==
    /\ call.fn = "none"
    /\ call' = [call EXCEPT !.fn = "parse_lok_points",
                            !.ret = parse_lok_points(call.arg)]
    /\ SessionIdle

CallDxf ==
    /\ call.fn = "none"
    /\ call' = [call EXCEPT !.fn = "parse_dxf_points",
                            !.ret = parse_dxf_points(call.arg)]
    /\ SessionIdle

ParseNext == CallLandXml \/ CallLok \/ CallDxf

ParseSpec == ParseInit /\ [][ParseNext]_vars

\* ------------------------------------------------------------------------
\* Vocabulary of the properties, stated without the parsers' own helpers
\* ------------------------------------------------------------------------
\* the local part of an element tag: what follows the "}" if there is one
LocalName(tag) ==
    LET close == {i \in 1..Len(tag) : tag[i] = "}"} IN
        IF close = {} THEN tag
        ELSE SubSeq(tag, (CHOOSE i \in close : \A j \in close : j <= i) + 1, Len(tag))

IsPointElement(e) == LocalName(e.tag) = CgPointLocal

\* positions where a maximal run of non-whitespace characters starts
TokenStarts(t) ==
    {i \in 1..Len(t) : t[i] \notin Whitespace /\ (i = 1 \/ t[i - 1] \in Whitespace)}

TokenEnd(t, i) ==
    CHOOSE j \in i..Len(t) :
        /\ \A k \in i..j : t[k] \notin Whitespace
        /\ (j = Len(t) \/ t[j + 1] \in Whitespace)

NthToken(t, n) ==
    LET i == CHOOSE k \in TokenStarts(t) :
                 Cardinality({m \in TokenStarts(t) : m <= k}) = n
    IN  SubSeq(t, i, TokenEnd(t, i))

ElementText(e) == IF e.hasText THEN e.text ELSE <<>>

HasNumericTriple(e) ==
    /\ Cardinality(TokenStarts(ElementText(e))) >= 3
    /\ \A n \in 1..3 : float_ok(NthToken(ElementText(e), n))

RecordOf(e) ==
    [Name      |-> IF e.hasName THEN e.name ELSE <<>>,
     Easting   |-> float_value(NthToken(ElementText(e), 1)),
     Northing  |-> float_value(NthToken(ElementText(e), 2)),
     Elevation |-> float_value(NthToken(ElementText(e), 3)),
     Source    |-> "LandXML"]

\* one record per valid point element of the document, in document order
RecordsOf(doc) ==
    LET valid == SelectSeq(doc.elems, LAMBDA e : IsPointElement(e) /\ HasNumericTriple(e))
    IN  [i \in 1..Len(valid) |-> RecordOf(valid[i])]

\* the record of the example <CgPoint name="P1">100.0 200.0 5.5</CgPoint>
RecordP1 ==
    [Name |-> <<"P", "1">>, Easting |-> <<100, 0>>, Northing |-> <<200, 0>>,
     Elevation |-> <<55, 1>>, Source |-> "LandXML"]

\* name ends in the four characters of ext, in either case
EndsWithIgnoringCase(name, lower, upper) ==
    /\ Len(name) >= 4
    /\ \A k \in 1..4 : name[Len(name) - 4 + k] \in {lower[k], upper[k]}

IsXmlName(name) == EndsWithIgnoringCase(name, <<".", "x", "m", "l">>, <<".", "X", "M", "L">>)

IsDxfName(name) == EndsWithIgnoringCase(name, <<".", "d", "x", "f">>, <<".", "D", "X", "F">>)

IsLokName(name) == EndsWithIgnoringCase(name, <<".", "l", "o", "k">>, <<".", "L", "O", "K">>)

\* ------------------------------------------------------------------------
\* C1
\* ------------------------------------------------------------------------
\* C1: for every well-formed XML document, parse_landxml_points returns
\* exactly one record per point (CgPoint) element whose text starts with a
\* numeric triple, in document order, with the element's name (or ""), the
\* three values as Easting, Northing, Elevation, and Source = "LandXML";
\* invalid point elements are left out without stopping the extraction.
C1_OneRecordPerValidPoint ==
    (call.fn = "parse_landxml_points" /\ call.arg.kind = "xml")
        => call.ret = DataFrame(RecordsOf(call.arg))

\* ------------------------------------------------------------------------
\* C2
\* ------------------------------------------------------------------------
\* the document's root is qualified by namespace ns, is not itself a point,
\* and the only point element of the document is the example P1, in ns
OnlyPointIsP1(doc, ns) ==
    /\ doc.kind = "xml"
    /\ doc.root.tag = QName(ns, LandXMLLocal)
    /\ Cardinality({i \in 1..Len(doc.elems) : IsPointElement(doc.elems[i])}) = 1
    /\ \E i \in 1..Len(doc.elems), d \in 1..(MaxElems + 1) :
           doc.elems[i] = Element(ns, CgPointLocal, d, TRUE, NameP1, TRUE, TextP1)

\* C2: under any namespace, a document whose one point element is
\* <CgPoint name="P1">100.0 200.0 5.5</CgPoint>, anywhere below the root,
\* gives exactly the one record {P1, 100.0, 200.0, 5.5, "LandXML"}.
C2_ExampleUnderAnyNamespace ==
    \A ns \in {NsA, NsB} :
        (call.fn = "parse_landxml_points" /\ OnlyPointIsP1(call.arg, ns))
            => call.ret = DataFrame(<<RecordP1>>)

\* the example nested two levels below a root in namespace b
C2_Witness ==
    /\ call.fn = "parse_landxml_points"
    /\ OnlyPointIsP1(call.arg, NsB)
    /\ \E i \in 1..Len(call.arg.elems) :
           IsPointElement(call.arg.elems[i]) /\ call.arg.elems[i].depth = 2
    /\ call.ret = DataFrame(<<RecordP1>>)

\* ------------------------------------------------------------------------
\* C3
\* ------------------------------------------------------------------------
\* what one archive member contributes: its extraction result, nothing when
\* it cannot be read or parsed
MemberRecords(m) ==
    IF IsXmlName(m.name) /\ m.intact /\ parse_landxml_points(m.data).tag = "df"
    THEN parse_landxml_points(m.data).rows
    ELSE <<>>

RECURSIVE ArchiveRecords(_)
ArchiveRecords(members) ==
    IF Len(members) = 0 THEN <<>>
    ELSE MemberRecords(Head(members)) \o ArchiveRecords(Tail(members))

\* C3: for every valid zip archive, parse_lok_points returns the
\* concatenation, in listing order, of the extraction results of exactly the
\* members named *.xml (any case); unreadable or unparsable members
\* contribute nothing; the length is the sum of the per-member counts.
C3_ConcatenationOfMembers ==
    (call.fn = "parse_lok_points" /\ call.arg.kind = "zip")
        => call.ret = DataFrame(ArchiveRecords(call.arg.members))

\* ------------------------------------------------------------------------
\* C4
\* ------------------------------------------------------------------------
\* C4: for every input that is not a valid zip archive, parse_lok_points
\* returns an empty table and raises nothing.
C4_NotAnArchiveGivesEmpty ==
    (call.fn = "parse_lok_points" /\ call.arg.kind # "zip")
        => call.ret = DataFrame(<<>>)

C4_Witness ==
    /\ call.fn = "parse_lok_points"
    /\ call.arg.kind = "garbage"
    /\ call.ret.tag = "df"
    /\ Len(call.ret.rows) = 0

\* ------------------------------------------------------------------------
\* C5
\* ------------------------------------------------------------------------
\* C5: after every load on a supported extension whose extractor returns a
\* table without raising, the session's current table is exactly the table
\* that load returned, whatever table was held before.
C5_EveryReturnedTableIsStored ==
    loaded.tag = "df" => design_points_df = loaded

\* C5 (amended): a load that returns a non-empty table makes that table the
\* session's current table, wholesale; a load that returns an empty table
\* leaves the current table as it was.
C5_NonEmptyTableReplacesWholesale ==
    [][ /\ (loaded'.tag = "df" /\ Len(loaded'.rows) > 0)
            => design_points_df' = loaded'
        /\ (loaded'.tag = "df" /\ Len(loaded'.rows) = 0)
            => design_points_df' = design_points_df ]_vars

\* a non-empty load has replaced a different table held before
C5_Witness ==
    /\ loaded.tag = "df"
    /\ Len(loaded.rows) > 0
    /\ design_points_df = loaded
    /\ prev_df.tag = "df"
    /\ prev_df # loaded

\* ------------------------------------------------------------------------
\* C6
\* ------------------------------------------------------------------------
\* the upload has an unsupported extension, or XML or CAD content that does
\* not parse
FailingUpload(f) ==
    \/ ~(IsXmlName(f.name) \/ IsDxfName(f.name) \/ IsLokName(f.name))
    \/ IsXmlName(f.name) /\ f.content.kind # "xml"
    \/ IsDxfName(f.name) /\ ezdxf /\ f.content.kind # "dxf"

\* C6: a pass that loads a failing upload produces no table and leaves the
\* current table and the page selector as they were; the session goes on, and
\* a valid upload in any later pass is loaded normally.
C6_FailedLoadKeepsSession ==
    /\ [][ (page = "home" /\ design_upload'.tag = "file" /\ FailingUpload(design_upload'))
             => /\ loaded'.tag # "df"
                /\ design_points_df' = design_points_df
                /\ page' = page ]_vars
    /\ [][ (page = "home" /\ design_upload' = UploadedFile(<<"a", ".", "x", "m", "l">>, DocOne))
             => design_points_df' = DataFrame(<<RecordP1>>) ]_vars

\* a load has raised while a table was held, and the table is still there
C6_Witness ==
    /\ loaded.tag = "raised"
    /\ design_points_df.tag = "df"
    /\ design_points_df = prev_df
    /\ page = "home"

\* ------------------------------------------------------------------------
\* C7
\* ------------------------------------------------------------------------
UnrecognisedPages == {"", "settings"}

\* C7: the page selector starts at "home" and is always "home" or
\* "overview"; it becomes "overview" only by a "Go to Overview" press in a
\* pass whose load succeeded, and "home" only by a "Back to Home" press; the
\* router resets any other value to "home" in the same pass.
C7_PageSelectorTransitions ==
    /\ page = "home"
    /\ [](page \in {"home", "overview"})
    /\ [][ (page' # page /\ page' = "overview")
             => (clicked' = "go" /\ loaded'.tag = "df" /\ Len(loaded'.rows) > 0) ]_vars
    /\ [][ (page' # page /\ page' = "home") => clicked' = "back" ]_vars
    /\ [](\A p \in UnrecognisedPages, c \in {"none", "back"} :
              router([page |-> p, df |-> design_points_df],
                     [upload |-> design_upload, click |-> c, view |-> view_mode]).page
                  = "home")

\* the pass that handled a "Go to Overview" press after a successful load
C7_Witness ==
    /\ page = "overview"
    /\ clicked = "go"
    /\ loaded.tag = "df"
    /\ Len(loaded.rows) > 0

C9_OverviewHasData ==
    /\ [](page = "overview"
            => (design_points_df.tag = "df" /\ Len(design_points_df.rows) > 0))
    /\ [](~warned)
    /\ [][ design_points_df.tag = "df"
             => (design_points_df'.tag = "df" /\ Len(design_points_df'.rows) > 0) ]_vars

\* the overview page rendered with its table
C9_Witness ==
    /\ page = "overview"
    /\ rendered = "overview"
    /\ design_points_df.tag = "df"
    /\ figure.kind = "Scatter"

\* ------------------------------------------------------------------------
\* C10
\* ------------------------------------------------------------------------
\* C10: each pass renders the page the selector named when the pass began; a
\* button press handled in the pass changes the selector for later passes
\* only.
C10_RendersPageNamedAtStart ==
    [][ rendered' = page ]_vars

\* the pass that handled "Back to Home" still rendered the overview page
C10_Witness ==
    /\ clicked = "back"
    /\ page = "home"
    /\ rendered = "overview"

====
